---- MODULE Spec2Model ----
(***************************************************************************)
(* hysios/todo: the line parser and tree builder (package parser), the     *)
(* printer with its transform pipeline (package printer) and the           *)
(* auto-numbering stage of the command (package cmd).                      *)
(*                                                                         *)
(* A string is a sequence of one-character strings; a rune outside ASCII   *)
(* or a backquote is written "U+xxxx".  Offsets are Go's: 0-based, half-open.*)
(***************************************************************************)
EXTENDS Integers, Sequences, FiniteSets

VARIABLES
    pc,        \* Parse: "scan" inside the Scan loop, "returned" after return
    input,     \* the lines the scanner has delivered so far
    ioErr,     \* the scanner's error (s.Err() would be non-nil)
    ret,       \* what Parse returned: [doc, err]
    nodes,     \* the Todoitem objects, by address 1..Len(nodes)
    todofile,  \* Todofile.Items: addresses of the roots
    prev,      \* Parse's prev   (0 is nil)
    parent,    \* Parse's parent (0 is nil)
    printer,   \* [made, pipes]: the Printer; a pipe is the closure's [num]
    pass,      \* the render pass under way: [mode, pos, start]; start is the
               \* pipeline as the pass found it
    nnode,     \* the private copy the callback renders
    out,       \* what the pass under way has written, one record per node:
               \* [node, nums, Text, offset, line], nums being the pipeline as
               \* the callback found it
    passes,    \* the finished passes: [mode, start, out]
    color      \* colorWithTags called alone: [text, tags, offset, called, full, fault]

vars == <<pc, input, ioErr, ret, nodes, todofile, prev, parent,
          printer, pass, nnode, out, passes, color>>

-----------------------------------------------------------------------------
(* Bounds *)

MaxLines == 4
MaxDocLines == 3
MaxPasses == 2
MaxPipes == 1
MaxShift == 3

-----------------------------------------------------------------------------
(* Strings *)

Slice(s, j, k) == SubSeq(s, j + 1, k)

From(s, j) == SubSeq(s, j + 1, Len(s))

RECURSIVE Repeat(_, _)
Repeat(c, n) == IF n <= 0 THEN <<>> ELSE <<c>> \o Repeat(c, n - 1)

HasPrefix(s, p) == Len(s) >= Len(p) /\ SubSeq(s, 1, Len(p)) = p

Digit == {"0", "1", "2", "3", "4", "5", "6", "7", "8", "9"}

DigitVal(c) == CHOOSE v \in 0..9 : <<"0", "1", "2", "3", "4", "5", "6", "7", "8", "9">>[v + 1] = c

DigitChar(v) == <<"0", "1", "2", "3", "4", "5", "6", "7", "8", "9">>[v + 1]

RECURSIVE Itoa(_)
Itoa(n) == IF n < 10 THEN <<DigitChar(n)>> ELSE Itoa(n \div 10) \o <<DigitChar(n % 10)>>

RECURSIVE Atoi(_)
Atoi(s) == IF s = <<>> THEN 0 ELSE 10 * Atoi(SubSeq(s, 1, Len(s) - 1)) + DigitVal(s[Len(s)])

\* regexp \s, and unicode.IsSpace on the characters of the model
IsSpace(c) == c \in {" ", "\t", "\r", "\f"}

Letter == {"a", "b", "c", "d", "e", "f", "g", "h", "i", "j", "k", "l", "m",
           "n", "o", "p", "q", "r", "s", "t", "u", "v", "w", "x", "y", "z", "X"}

\* regexp [\w\p{L}\d]
IsWord(c) == c \in Letter \/ c \in Digit \/ c = "_"

\* len(strings.TrimSpace(line)) == 0
TrimSpaceEmpty(line) == \A i \in 1..Len(line) : IsSpace(line[i])

-----------------------------------------------------------------------------
(* parser: the line classifier *)

box == << <<"-">>, <<"U+274D">>, <<"U+2751">>, <<"U+25A0">>, <<"U+2B1C">>,
          <<"U+25A1">>, <<"U+2610">>, <<"U+25AA">>, <<"U+25AB">>, <<"U+2013">>,
          <<"U+2014">>, <<"U+2261">>, <<"U+2192">>, <<"U+203A">>, <<"[", "]">> >>

done == << <<"U+2714">>, <<"U+2713">>, <<"U+2611">>, <<"+">>, <<"[", "x", "]">>,
           <<"[", "X", "]">>, <<"[", "+", "]">> >>

cancel == << <<"U+2718">>, <<"x">>, <<"X">>, <<"[", "-", "]">> >>

InList(l, token) == \E i \in 1..Len(l) : l[i] = token

tokenStatus(token) ==
    IF InList(box \o << <<"[", " ", "]">> >>, token) THEN "StPending"
    ELSE IF InList(done, token) THEN "StDone"
    ELSE IF InList(cancel, token) THEN "StCancel"
    ELSE "StPending"

RECURSIVE ident(_, _)
ident(line, width) ==
    IF line = <<>> THEN [idt |-> 0, pure |-> <<>>]
    ELSE IF Head(line) = " "
         THEN LET r == ident(Tail(line), width) IN [idt |-> r.idt + 1, pure |-> r.pure]
    ELSE IF Head(line) = "\t"
         THEN LET r == ident(Tail(line), width) IN [idt |-> r.idt + width, pure |-> r.pure]
    ELSE [idt |-> 0, pure |-> line]

\* the length of the run of characters satisfying the class, from 0-based i
RECURSIVE SpaceRun(_, _)
SpaceRun(s, i) == IF i < Len(s) /\ IsSpace(s[i + 1]) THEN 1 + SpaceRun(s, i + 1) ELSE 0

\* the glyph alternatives of reLine, in the order of the alternation:
\* the literals of box, \[\s+\], the literals of done and of cancel
GlyphLits == box \o done \o cancel

\* the length of \[\s+\] at the start of s, sp being the spaces after the [
BracketSpaces(s, sp) ==
    IF Len(s) >= 3 /\ s[1] = "[" /\ sp >= 1 /\ 1 + sp < Len(s) /\ s[2 + sp] = "]"
    THEN 2 + sp ELSE 0

\* the lengths of the glyphs that match at the start of s with \s+ after them
GlyphEnds(s) ==
    {Len(GlyphLits[i]) : i \in {k \in 1..Len(GlyphLits) :
        HasPrefix(s, GlyphLits[k]) /\ SpaceRun(s, Len(GlyphLits[k])) >= 1}}
    \cup {n \in {BracketSpaces(s, SpaceRun(s, 1))} : n > 0 /\ SpaceRun(s, n) >= 1}

\* the submatches of reLine, ends being the glyphs that match
reLineSub(s, ends) ==
    IF ends = {} THEN [ok |-> FALSE, token |-> <<>>, text |-> <<>>]
    ELSE [ok |-> TRUE,
          token |-> Slice(s, 0, CHOOSE n \in ends : TRUE),
          text |-> From(s, (CHOOSE n \in ends : TRUE) + SpaceRun(s, CHOOSE n \in ends : TRUE))]

\* reLine.FindStringSubmatch: ^(glyph)\s+(.*?)$
reLine(s) == reLineSub(s, GlyphEnds(s))

\* the characters of reTitle's negated class
TitleClass ==
    UNION {{GlyphLits[i][j] : j \in 1..Len(GlyphLits[i])} : i \in 1..Len(GlyphLits)}
    \cup {"[", "]", "\\"}

\* reTitle.FindStringSubmatch: ^[^glyph characters].*?:$
reTitle(s) == Len(s) >= 2 /\ s[1] \notin TitleClass /\ s[Len(s)] = ":"

-----------------------------------------------------------------------------
(* parser: the tag extractor *)

tagType(tag) ==
    IF tag[1] /= "@" THEN "TagNormal"
    ELSE LET t == Tail(tag) IN
         IF HasPrefix(t, <<"d", "o", "n", "e">>) THEN "TagDone"
         ELSE IF HasPrefix(t, <<"s", "t", "a", "r", "t", "e", "d">>) THEN "TagStarted"
         ELSE IF HasPrefix(t, <<"e", "s", "t">>) THEN "TagEst"
         ELSE IF HasPrefix(t, <<"l", "a", "s", "t", "e", "d">>) THEN "TagLasted"
         ELSE IF HasPrefix(t, <<"c", "r", "i", "t", "i", "c", "a", "l">>) THEN "TagCritical"
         ELSE IF HasPrefix(t, <<"h", "i", "g", "h">>) THEN "TagHigh"
         ELSE IF HasPrefix(t, <<"l", "o", "w">>) THEN "TagLow"
         ELSE IF HasPrefix(t, <<"t", "o", "d", "a", "y">>) THEN "TagToday"
         ELSE "TagNormal"

formatTag(text) ==
    IF text[1] = "*" THEN "TagBold"
    ELSE IF text[1] = "_" THEN "TagItalic"
    ELSE IF text[1] = "~" THEN "TagDeleted"
    ELSE IF text[1] = "U+0060" THEN "TagCode"
    ELSE "TagUnknown"

RECURSIVE WordRun(_, _)
WordRun(s, i) == IF i < Len(s) /\ IsWord(s[i + 1]) THEN 1 + WordRun(s, i + 1) ELSE 0

\* regexp [\w\d\s:-]
IsParam(c) == IsWord(c) \/ IsSpace(c) \/ c \in {":", "-"}

RECURSIVE ParamRun(_, _)
ParamRun(s, i) == IF i < Len(s) /\ IsParam(s[i + 1]) THEN 1 + ParamRun(s, i + 1) ELSE 0

\* (\([\w\d\s:-]+\)|\S) at 0-based i: the end of the match, 0 when none;
\* n is the length of the run of [\w\d\s:-] after the character at i
TagTailRun(s, i, n) ==
    IF i < Len(s) /\ s[i + 1] = "(" /\ n >= 1 /\ i + 1 + n < Len(s) /\ s[i + 2 + n] = ")"
    THEN i + 2 + n
    ELSE IF i < Len(s) /\ ~IsSpace(s[i + 1]) THEN i + 1
    ELSE 0

TagTail(s, i) == TagTailRun(s, i, ParamRun(s, i + 1))

\* reTag at 0-based i, the word run tried from r characters downwards
RECURSIVE TagFrom(_, _, _)
TagFromTail(s, i, r, e) == IF e > 0 THEN e ELSE TagFrom(s, i, r - 1)
TagFrom(s, i, r) == IF r < 1 THEN 0 ELSE TagFromTail(s, i, r, TagTail(s, i + 1 + r))

reTagAt(s, i) == IF i < Len(s) /\ s[i + 1] = "@" THEN TagFrom(s, i, WordRun(s, i + 1)) ELSE 0

FmtMark == {"*", "U+0060", "~", "_"}

\* the 0-based index of the first c at or after i, Len(s) when there is none
RECURSIVE IndexFrom(_, _, _)
IndexFrom(s, c, i) == IF i >= Len(s) \/ s[i + 1] = c THEN i ELSE IndexFrom(s, c, i + 1)

\* the closing mark of reFmtTxt at 0-based i is at j: the end of the match
reFmtTxtEnd(s, i, j) == IF j < Len(s) THEN j + 1 ELSE 0

\* reFmtTxt at 0-based i: the end of the match, 0 when none
reFmtTxtAt(s, i) ==
    IF i < Len(s) /\ s[i + 1] \in FmtMark
    THEN reFmtTxtEnd(s, i, IndexFrom(s, s[i + 1], i + 1)) ELSE 0

\* FindAllStringIndex of reTag (which = "tag") or reFmtTxt, from 0-based i
RECURSIVE FindAll(_, _, _)
FindAllAt(which, s, i, e) ==
    IF e > 0 THEN << <<i, e>> >> \o FindAll(which, s, e) ELSE FindAll(which, s, i + 1)
FindAll(which, s, i) ==
    IF i >= Len(s) THEN <<>>
    ELSE IF which = "tag" THEN FindAllAt(which, s, i, reTagAt(s, i))
    ELSE FindAllAt(which, s, i, reFmtTxtAt(s, i))

\* the Tag of the match idx; its type is that of its text
MakeTag(which, idx, str) ==
    [Start |-> idx[1], Stop |-> idx[2],
     Type |-> IF which = "tag" THEN tagType(str) ELSE formatTag(str),
     Text |-> str]

MakeTags(which, text, idxs) ==
    [n \in 1..Len(idxs) |-> MakeTag(which, idxs[n], Slice(text, idxs[n][1], idxs[n][2]))]

\* parseTag: the tags appended to node.Tags
parseTag(text) == MakeTags("tag", text, FindAll("tag", text, 0))

\* parseFormatText: the tags appended to node.Tags
parseFormatText(text) == MakeTags("fmt", text, FindAll("fmt", text, 0))

\* parseLine at the label Exit, todo's Type, Token, Text and Status being set
parseLineExit(idt, todo) ==
    [todo EXCEPT !.Ident = idt,
                 !.Items = <<>>,
                 !.Tags = parseTag(todo.Text) \o parseFormatText(todo.Text)]

\* parseLine after ident: s is reLine's match, title whether reTitle matches
parseLineMatch(id, s, title, zero) ==
    IF s.ok
    THEN parseLineExit(id.idt, [zero EXCEPT !.Type = "ItItem", !.Token = s.token,
                                           !.Text = s.text, !.Status = tokenStatus(s.token)])
    ELSE IF title
    THEN parseLineExit(id.idt, [zero EXCEPT !.Type = "ItTitle", !.Status = "StUnknown",
                                           !.Text = id.pure])
    ELSE parseLineExit(id.idt, [zero EXCEPT !.Text = id.pure])

parseLinePure(id, zero) == parseLineMatch(id, reLine(id.pure), reTitle(id.pure), zero)

\* the zero Todoitem
NoNode == [Ident |-> 0, Type |-> "ItText", Token |-> <<>>, Text |-> <<>>,
           Status |-> "StUnknown", Tags |-> <<>>, Items |-> <<>>, parent |-> 0,
           offset |-> 0]

\* parseLine: the node of one line (its indent is the node's Ident)
parseLine(line) == parseLinePure(ident(line, 4), NoNode)

-----------------------------------------------------------------------------
(* parser: the tree builder.  T is [nodes, todofile] *)

\* an Add that puts the child first
AddFirst(T, node, child) ==
    [T EXCEPT !.nodes = [T.nodes EXCEPT ![child].parent = node,
                                        ![node].Items = <<child>> \o @]]

\* Todoitem.Add
Add(T, node, child) ==
    [T EXCEPT !.nodes = [T.nodes EXCEPT ![child].parent = node,
                                        ![node].Items = Append(@, child)]]

\* a getParent that does not pop
getParentNoPop(T, node) == node

getParent(T, node) == IF node = 0 THEN 0 ELSE T.nodes[node].parent

\* a parentAdd that forgets the root list
parentAddLost(T, par, node) == IF par = 0 THEN T ELSE Add(T, par, node)

parentAdd(T, par, node) ==
    IF par = 0 THEN [T EXCEPT !.todofile = Append(@, node)] ELSE Add(T, par, node)

\* parseNode once the node is attached under newpar
parseNodeRet(T, newpar, node, trackpar) ==
    [T |-> parentAdd(T, newpar, node), parent |-> trackpar, node |-> node, err |-> "nil"]

\* parseNode after parseLine: the new node is at the address node of T
parseNodeAt(prv, par, node, T) ==
    IF prv = 0 THEN parseNodeRet(T, 0, node, par)
    ELSE IF T.nodes[node].Ident > T.nodes[prv].Ident
    THEN [T |-> Add(T, prv, node), parent |-> prv, node |-> node, err |-> "nil"]
    ELSE IF T.nodes[node].Ident < T.nodes[prv].Ident
    THEN parseNodeRet(T, getParent(T, par), node, getParent(T, par))
    ELSE parseNodeRet(T, par, node, par)

\* parseNode: [T, parent, node, err]; the new node's address is the next free one
parseNode(prv, par, line, T) ==
    parseNodeAt(prv, par, Len(T.nodes) + 1, [T EXCEPT !.nodes = Append(@, parseLine(line))])

\* Todoitem.Printer: the addresses in the order the callback sees them
RECURSIVE Walk(_, _)
RECURSIVE WalkAll(_, _)
Walk(ns, node) == <<node>> \o WalkAll(ns, ns[node].Items)
WalkAll(ns, items) ==
    IF items = <<>> THEN <<>> ELSE Walk(ns, Head(items)) \o WalkAll(ns, Tail(items))

-----------------------------------------------------------------------------
(* Parse *)

NoPass == [mode |-> "idle", pos |-> 0, start |-> <<>>]

NoColor == [text |-> <<>>, tags |-> <<>>, offset |-> 0, called |-> FALSE,
            full |-> <<>>, fault |-> FALSE]

Init ==
    /\ pc = "scan"
    /\ input = <<>>
    /\ ioErr = FALSE
    /\ ret = [doc |-> FALSE, err |-> "nil"]
    /\ nodes = <<>>
    /\ todofile = <<>>
    /\ prev = 0
    /\ parent = 0
    /\ printer = [made |-> FALSE, pipes |-> <<>>]
    /\ pass = NoPass
    /\ nnode = NoNode
    /\ out = <<>>
    /\ passes = <<>>
    /\ color = NoColor

\* one turn of Parse's loop: s.Scan() delivers a line
ScanLine(line) ==
    /\ pc = "scan"
    /\ input' = Append(input, line)
    /\ IF TrimSpaceEmpty(line)
       THEN UNCHANGED <<pc, ret, nodes, todofile, prev, parent>>
       ELSE \E r \in {parseNode(prev, parent, line, [nodes |-> nodes, todofile |-> todofile])} :
               IF r.err /= "nil"
               THEN /\ pc' = "returned"
                    /\ ret' = [doc |-> FALSE, err |-> r.err]
                    /\ UNCHANGED <<nodes, todofile, prev, parent>>
               ELSE /\ nodes' = r.T.nodes
                    /\ todofile' = r.T.todofile
                    /\ parent' = r.parent
                    /\ prev' = r.node
                    /\ UNCHANGED <<pc, ret>>
    /\ UNCHANGED <<ioErr, printer, pass, nnode, out, passes, color>>

\* what Parse returns once s.Scan() has returned false
AfterLoop(err) == [doc |-> TRUE, err |-> "nil"]

\* s.Scan() returns false at the end of the input
ScanEOF ==
    /\ pc = "scan"
    /\ pc' = "returned"
    /\ ret' = AfterLoop(ioErr)
    /\ UNCHANGED <<input, ioErr, nodes, todofile, prev, parent,
                   printer, pass, nnode, out, passes, color>>

\* the reader fails: s.Scan() returns false and s.Err() is the error
ScanFail ==
    /\ pc = "scan"
    /\ ioErr' = TRUE
    /\ pc' = "returned"
    /\ ret' = AfterLoop(TRUE)
    /\ UNCHANGED <<input, nodes, todofile, prev, parent,
                   printer, pass, nnode, out, passes, color>>

-----------------------------------------------------------------------------
(* printer: colours.  A colour is named by its palette key; styled output is *)
(* a sequence of chunks [attr, s], one per Sprint.                          *)

PaletteKeys == {"ClBase", "ClItem", "ClTitle", "ClText", "ClDone", "ClCancel", "ClTag",
                "ClCustom1", "ClCustom2", "ClCustom3", "ClCustom4", "ClBold",
                "ClItalic", "ClDeleted", "ClHighlight"}

typeClr(typ) ==
    IF typ = "ItItem" THEN "ClItem" ELSE IF typ = "ItTitle" THEN "ClTitle" ELSE "ClText"

statuClr(status) ==
    IF status = "StDone" THEN "ClDone" ELSE IF status = "StCancel" THEN "ClCancel" ELSE "ClBase"

tagClr(tagTyp) ==
    CASE tagTyp = "TagNormal" -> "ClTag"
      [] tagTyp = "TagCritical" -> "ClCustom1"
      [] tagTyp = "TagHigh" -> "ClCustom2"
      [] tagTyp = "TagLow" -> "ClCustom3"
      [] tagTyp = "TagToday" -> "ClCustom4"
      [] tagTyp = "TagBold" -> "ClBold"
      [] tagTyp = "TagItalic" -> "ClItalic"
      [] tagTyp = "TagDeleted" -> "ClDeleted"
      [] tagTyp = "TagCode" -> "ClHighlight"
      [] OTHER -> "ClTag"

pickColor(typ) == IF typ \in PaletteKeys THEN typ ELSE "ClBase"

Sprint(c, s) == [attr |-> c, s |-> s]

NoTag == [Start |-> 0, Stop |-> 0, Type |-> "nil", Text |-> <<>>]

\* shiftTag: [tag, tags]; tag is NoTag when the list is empty
shiftTag(tags, off) ==
    IF Len(tags) = 0 THEN [tag |-> NoTag, tags |-> <<>>]
    ELSE [tag |-> [Head(tags) EXCEPT !.Start = @ + off, !.Stop = @ + off],
          tags |-> Tail(tags)]

\* text[j:k] is in range
SliceOK(text, j, k) == 0 <= j /\ j <= k /\ k <= Len(text)

\* colorWithTags's loop from the test i < len(text): [full, fault]
RECURSIVE colorLoop(_, _, _, _, _, _, _, _)
colorLoop(text, c, off, i, j, tag, tags, full) ==
    IF i >= Len(text) THEN [full |-> full, fault |-> FALSE]
    ELSE IF tag.Type = "nil"
    THEN IF SliceOK(text, j, Len(text))
         THEN [full |-> Append(full, Sprint(c, Slice(text, j, Len(text)))), fault |-> FALSE]
         ELSE [full |-> full, fault |-> TRUE]
    ELSE IF i >= tag.Start /\ i <= tag.Stop
    THEN LET nx == shiftTag(tags, off)
         IN colorLoop(text, c, off, tag.Stop, tag.Stop, nx.tag, nx.tags,
                      Append(full, Sprint(pickColor(tagClr(tag.Type)), tag.Text)))
    ELSE IF i < tag.Start
    THEN IF SliceOK(text, j, tag.Start)
         THEN colorLoop(text, c, off, tag.Start + 1, j, tag, tags,
                        Append(full, Sprint(c, Slice(text, j, tag.Start))))
         ELSE [full |-> full, fault |-> TRUE]
    ELSE LET nx == shiftTag(tags, off)
         IN colorLoop(text, c, off, i + 1, i, nx.tag, nx.tags, full)

colorWithTags(text, c, tags, off) ==
    IF Len(tags) = 0 THEN [full |-> <<Sprint(c, text)>>, fault |-> FALSE]
    ELSE LET nx == shiftTag(tags, off)
         IN colorLoop(text, c, off, 0, 0, nx.tag, nx.tags, <<>>)

-----------------------------------------------------------------------------
(* cmd: the auto-numbering stage.  mem is [tree, nnode]: the Document's     *)
(* nodes and the callback's copy, which has the address NNode.              *)

NNode == 0

Deref(mem, ptr) == IF ptr = NNode THEN mem.nnode ELSE mem.tree[ptr]

Store(mem, ptr, node) ==
    IF ptr = NNode THEN [mem EXCEPT !.nnode = node] ELSE [mem EXCEPT !.tree[ptr] = node]

RECURSIVE DigitRun(_, _)
DigitRun(s, i) == IF i < Len(s) /\ s[i + 1] \in Digit THEN 1 + DigitRun(s, i + 1) ELSE 0

\* numRe.FindStringSubmatch, ^(\d+). : the length of ss[1], 0 when no match
numRe(s) ==
    LET d == DigitRun(s, 0)
    IN IF d >= 1 /\ Len(s) > d THEN d ELSE IF d >= 2 THEN d - 1 ELSE 0

\* a stage that numbers every node, whatever its Type
regeneratorNumberAnyType(num, mem, ptr) ==
    [mem |-> Store(mem, ptr, [Deref(mem, ptr) EXCEPT
                                 !.offset = Len(Itoa(num)) + 2,
                                 !.Text = Itoa(num) \o <<".", " ">> \o @]),
     num |-> num + 1, fault |-> FALSE]

\* one call of the closure regeneratorNumber(num) returned: [mem, num, fault]
regeneratorNumber(num, mem, ptr) ==
    LET node == Deref(mem, ptr)
        d == numRe(node.Text)
    IN IF node.Type /= "ItItem" THEN [mem |-> mem, num |-> num, fault |-> FALSE]
       ELSE IF d = 0
       THEN LET prefix == Itoa(num) \o <<".", " ">>
            IN [mem |-> Store(mem, ptr, [node EXCEPT !.offset = Len(prefix),
                                                      !.Text = prefix \o node.Text]),
                num |-> num + 1, fault |-> FALSE]
       ELSE LET n0 == Atoi(Slice(node.Text, 0, d))
                oldns == Itoa(n0)
                ns == Itoa(num)
                num1 == IF n0 > num THEN n0 ELSE num
                ofs == Len(ns) - Len(oldns)
                r == node.Text
            IN IF ofs > 0
               THEN IF Len(ns) > Len(r)
                    THEN [mem |-> Store(mem, ptr, [node EXCEPT !.offset = ofs]),
                          num |-> num1, fault |-> TRUE]
                    ELSE [mem |-> Store(mem, ptr,
                                     [node EXCEPT !.offset = ofs,
                                                  !.Text = Itoa(num1) \o <<".">> \o From(r, Len(ns))]),
                          num |-> num1 + 1, fault |-> FALSE]
               ELSE IF ofs < 0
               THEN [mem |-> Store(mem, ptr, [node EXCEPT !.offset = ofs]),
                     num |-> num1 + 1, fault |-> FALSE]
               ELSE [mem |-> Store(mem, ptr,
                                [node EXCEPT !.offset = ofs,
                                             !.Text = Itoa(num1) \o From(r, Len(ns))]),
                     num |-> num1 + 1, fault |-> FALSE]

-----------------------------------------------------------------------------
(* printer: the render passes *)

\* copier.Copy(&nnode, node): the exported fields; parent and offset stay zero
copierCopy(node) == [node EXCEPT !.parent = 0, !.offset = 0]

\* a callback that hands the tree's node to the pipes
PipeArgNode(node) == node

\* the pointer the callback hands to each pipe: &nnode
PipeArg(node) == NNode

\* for _, pipe := range print.pipes, from the i-th: [mem, pipes, fault]
RECURSIVE RunPipes(_, _, _, _)
RunPipes(pipes, i, mem, ptr) ==
    IF i > Len(pipes) THEN [mem |-> mem, pipes |-> pipes, fault |-> FALSE]
    ELSE LET r == regeneratorNumber(pipes[i].num, mem, ptr)
             ps == [pipes EXCEPT ![i].num = r.num]
         IN IF r.fault THEN [mem |-> r.mem, pipes |-> ps, fault |-> TRUE]
            ELSE RunPipes(ps, i + 1, r.mem, ptr)

\* Printer.print: the line written, without its newline
print(node) ==
    IF node.Type = "ItItem"
    THEN Repeat(" ", node.Ident) \o node.Token \o <<" ">> \o node.Text
    ELSE Repeat(" ", node.Ident) \o node.Text

\* Printer.printColour: [line, fault], the line as chunks
printColour(node) ==
    LET cStat == pickColor(statuClr(node.Status))
        ctxt == IF node.Status \in {"StDone", "StCancel"} THEN cStat
                ELSE pickColor(typeClr(node.Type))
        indent == [attr |-> "none", s |-> Repeat(" ", node.Ident)]
    IN IF node.Type = "ItItem"
       THEN LET m == colorWithTags(node.Text, ctxt, node.Tags, node.offset)
            IN [line |-> <<indent, Sprint(cStat, node.Token), [attr |-> "none", s |-> <<" ">>]>>
                         \o m.full,
                fault |-> m.fault]
       ELSE [line |-> <<indent, Sprint(ctxt, node.Text)>>, fault |-> FALSE]

\* printer.New(todofile)
New ==
    /\ pc = "returned"
    /\ ret.doc
    /\ ~printer.made
    /\ printer' = [made |-> TRUE, pipes |-> <<>>]
    /\ UNCHANGED <<pc, input, ioErr, ret, nodes, todofile, prev, parent,
                   pass, nnode, out, passes, color>>

\* print.AddPipe(regeneratorNumber(num)), num being 1
AddPipe ==
    /\ printer.made
    /\ pass.mode = "idle"
    /\ Len(printer.pipes) < MaxPipes
    /\ printer' = [printer EXCEPT !.pipes = Append(@, [num |-> 1])]
    /\ UNCHANGED <<pc, input, ioErr, ret, nodes, todofile, prev, parent,
                   pass, nnode, out, passes, color>>

\* Print or WriteTo is entered
Start(mode) ==
    /\ printer.made
    /\ pass.mode = "idle"
    /\ pass' = [mode |-> mode, pos |-> 1, start |-> printer.pipes]
    /\ out' = <<>>
    /\ UNCHANGED <<pc, input, ioErr, ret, nodes, todofile, prev, parent,
                   printer, nnode, passes, color>>

PrinterPrint == Start("Print")

PrinterWriteTo == Start("WriteTo")

\* the callback of printNodePipes / printNodePipesWithoutColor on the next node
printNodePipes ==
    /\ pass.mode \in {"Print", "WriteTo"}
    /\ pass.pos <= Len(WalkAll(nodes, todofile))
    /\ \E node \in {WalkAll(nodes, todofile)[pass.pos]} :
       \E r \in {RunPipes(printer.pipes, 1,
                          [tree |-> nodes, nnode |-> copierCopy(nodes[node])], PipeArg(node))} :
       \E c \in {IF pass.mode = "Print" THEN printColour(r.mem.nnode)
                  ELSE [line |-> print(r.mem.nnode), fault |-> FALSE]} :
          /\ nodes' = r.mem.tree
          /\ nnode' = r.mem.nnode
          /\ printer' = [printer EXCEPT !.pipes = r.pipes]
          /\ pass' = IF r.fault \/ c.fault THEN [pass EXCEPT !.mode = "panic"]
                     ELSE [pass EXCEPT !.pos = @ + 1]
          /\ out' = IF r.fault \/ c.fault THEN out
                    ELSE Append(out, [node |-> node,
                                      nums |-> printer.pipes,
                                      Text |-> r.mem.nnode.Text,
                                      offset |-> r.mem.nnode.offset,
                                      line |-> c.line])
    /\ UNCHANGED <<pc, input, ioErr, ret, todofile, prev, parent, passes, color>>

\* Print or WriteTo returns
Done ==
    /\ pass.mode \in {"Print", "WriteTo"}
    /\ pass.pos > Len(WalkAll(nodes, todofile))
    /\ passes' = Append(passes, [mode |-> pass.mode, start |-> pass.start, out |-> out])
    /\ pass' = NoPass
    /\ out' = <<>>
    /\ UNCHANGED <<pc, input, ioErr, ret, nodes, todofile, prev, parent,
                   printer, nnode, color>>

\* colorWithTags called on a text with the tags and the offset of a node
colorCall ==
    /\ ~color.called
    /\ \E r \in {colorWithTags(color.text, "ClItem", color.tags, color.offset)} :
          color' = [color EXCEPT !.called = TRUE, !.full = r.full, !.fault = r.fault]
    /\ UNCHANGED <<pc, input, ioErr, ret, nodes, todofile, prev, parent,
                   printer, pass, nnode, out, passes>>

-----------------------------------------------------------------------------
(* The program: a document is parsed, then rewritten once (rewriteTodo)  *)
(* without a pipeline                                                    *)

Lines ==
    {Repeat(" ", n) \o <<"-", " ", "a">> : n \in {0, 1, 2}}
    \cup {<<"b", ":">>, <<" ", " ", "c">>, <<"-", " ", " ", "a">>, <<>>, <<" ">>}

Next ==
    \/ \E line \in Lines : Len(input) < MaxLines /\ ScanLine(line)
    \/ ScanEOF
    \/ ScanFail
    \/ New
    \/ passes = <<>> /\ PrinterWriteTo
    \/ printNodePipes
    \/ Done

Spec == Init /\ [][Next]_vars

-----------------------------------------------------------------------------
(* The program on numbered items: parse, then Print and WriteTo passes of   *)
(* one Printer, with or without the auto-numbering stage                    *)

NumLines ==
    {<<"-", " ", "a">>, <<" ", " ", "-", " ", "a">>, <<"b", ":">>,
     <<"-", " ", "9", "9", ".", " ", "a">>, <<"-", " ", "5", ")", " ", "a">>}

NextRender ==
    \/ \E line \in NumLines : Len(input) < MaxDocLines /\ ScanLine(line)
    \/ ScanEOF
    \/ New
    \/ AddPipe
    \/ Len(passes) < MaxPasses /\ PrinterPrint
    \/ Len(passes) < MaxPasses /\ PrinterWriteTo
    \/ printNodePipes
    \/ Done

SpecRender == Init /\ [][NextRender]_vars

-----------------------------------------------------------------------------
(* colorWithTags on its own: the tags of a parsed text, an offset, and the  *)
(* text the pipeline left                                                   *)

ColorOrigs ==
    {<<"*", "a", "*">>, <<"a", "*", "b", "*">>, <<"@", "a", "b", " ", "c">>,
     <<"a", " ", "@", "b", "!">>, <<"*", "a", "*", " ", "@", "b", "c">>,
     <<"@", "a", "*", "b", "*">>}

ColorTexts == ColorOrigs \cup {<<>>, <<"a">>, <<"a", "b">>, <<"a", "b", " ", "c", "d">>}

InitColor ==
    /\ pc = "scan"
    /\ input = <<>>
    /\ ioErr = FALSE
    /\ ret = [doc |-> FALSE, err |-> "nil"]
    /\ nodes = <<>>
    /\ todofile = <<>>
    /\ prev = 0
    /\ parent = 0
    /\ printer = [made |-> FALSE, pipes |-> <<>>]
    /\ pass = NoPass
    /\ nnode = NoNode
    /\ out = <<>>
    /\ passes = <<>>
    /\ \E orig \in ColorOrigs, text \in ColorTexts, off \in (0 - MaxShift)..MaxShift :
          color = [NoColor EXCEPT !.text = text, !.offset = off,
                                  !.tags = parseTag(orig) \o parseFormatText(orig)]

NextColor == colorCall

SpecColor == InitColor /\ [][NextColor]_vars

-----------------------------------------------------------------------------
(* Claims *)

NoTabs(ls) == \A i \in 1..Len(ls) : \A j \in 1..Len(ls[i]) : ls[i][j] /= "\t"

PlainLines(o) == [i \in 1..Len(o) |-> o[i].line]

SameButTrailingBlank(a, b) == a = b \/ a = Append(b, <<>>) \/ b = Append(a, <<>>)

\* C1: parsing an input without tabs and writing the Document with WriteTo and
\* an empty pipeline gives back the input's lines, but for one trailing blank
\* line.
C1_RoundTrip ==
    \A p \in 1..Len(passes) :
        (~ioErr /\ NoTabs(input) /\ passes[p].mode = "WriteTo" /\ passes[p].start = <<>>)
        => SameButTrailingBlank(PlainLines(passes[p].out), input)

\* C2: when reading the input fails, Parse returns an error and no Document.
C2_IOErrorAborts ==
    (pc = "returned" /\ ioErr) => (ret.err /= "nil" /\ ~ret.doc)

RECURSIVE Concat(_)
Concat(chunks) == IF chunks = <<>> THEN <<>> ELSE Head(chunks).s \o Concat(Tail(chunks))

OutOfRange(tag, off, text) == tag.Start + off < 0 \/ tag.Stop + off > Len(text)

\* C3: colorWithTags on a node whose only span, once shifted, lies outside the
\* text does not fault and emits the whole text in the node's own colour.
C3_OutOfRangeSpanPlain ==
    (color.called /\ Len(color.tags) = 1
     /\ OutOfRange(color.tags[1], color.offset, color.text))
    => /\ ~color.fault
       /\ Concat(color.full) = color.text
       /\ \A i \in 1..Len(color.full) : color.full[i].attr = "ClItem"

\* C4: once Parse has returned, no step of any render pass changes a node of
\* the Document or the list of roots.
C4_DocumentImmutable ==
    [][pc = "returned" => (nodes' = nodes /\ todofile' = todofile)]_vars

C4_Witness ==
    /\ Len(passes) = 2
    /\ passes[1].mode /= passes[2].mode
    /\ \E i \in 1..Len(passes[2].out) :
          /\ passes[2].start /= <<>>
          /\ passes[2].out[i].Text /= nodes[passes[2].out[i].node].Text
          /\ passes[2].out[i].offset /= nodes[passes[2].out[i].node].offset

NonBlank(ls) == {i \in 1..Len(ls) : ~TrimSpaceEmpty(ls[i])}

\* the places that hold node n: <<0, i>> in the root list, <<m, i>> in m's children
Holders(n) ==
    {<<0, i>> : i \in {j \in 1..Len(todofile) : todofile[j] = n}}
    \cup UNION {{<<m, i>> : i \in {j \in 1..Len(nodes[m].Items) : nodes[m].Items[j] = n}} :
                 m \in 1..Len(nodes)}

\* the nodes within d steps below the roots
RECURSIVE Within(_)
Within(d) ==
    IF d = 0 THEN {todofile[i] : i \in 1..Len(todofile)}
    ELSE Within(d - 1) \cup
         UNION {{nodes[m].Items[i] : i \in 1..Len(nodes[m].Items)} : m \in Within(d - 1)}

\* C5: after Parse there is one node per non-blank line and none for a blank
\* one; each node is held by exactly one list, once, its parent names the
\* holder, and it is reachable from the roots.
C5_OneNodePerLine ==
    pc = "returned" =>
        /\ Len(nodes) = Cardinality(NonBlank(input))
        /\ \A n \in 1..Len(nodes) :
              /\ Cardinality(Holders(n)) = 1
              /\ \A h \in Holders(n) : nodes[n].parent = h[1]
              /\ n \in Within(Len(nodes))

C5_Witness ==
    /\ pc = "returned"
    /\ Len(nodes) = 3
    /\ Len(input) = 4
    /\ Len(todofile) = 2
    /\ \E n \in 1..Len(nodes) : nodes[n].parent /= 0

\* the parent the attachment rule gives node k, from node k - 1 alone
RuleParent(k) ==
    IF nodes[k].Ident > nodes[k - 1].Ident THEN k - 1
    ELSE IF nodes[k].Ident = nodes[k - 1].Ident THEN nodes[k - 1].parent
    ELSE IF nodes[k - 1].parent = 0 THEN 0
    ELSE nodes[nodes[k - 1].parent].parent

\* C6: the first node is a root; every later node's parent is the preceding
\* node when its indent is greater, the preceding node's parent when equal,
\* and the parent of the preceding node's parent (or none) when smaller.
C6_AttachByPrevious ==
    /\ Len(nodes) >= 1 => (nodes[1].parent = 0 /\ <<0, 1>> \in Holders(1))
    /\ \A k \in 2..Len(nodes) :
          /\ nodes[k].parent = RuleParent(k)
          /\ \E h \in Holders(k) : h[1] = RuleParent(k)

C6_Witness ==
    /\ pc = "returned"
    /\ Len(nodes) = 4
    /\ nodes[1].Ident = 0 /\ nodes[2].Ident = 1 /\ nodes[3].Ident = 2 /\ nodes[4].Ident = 0
    /\ nodes[4].parent = 1
    /\ nodes[1].Items = <<2, 4>>

Unnumbered == \A n \in 1..Len(nodes) : nodes[n].Type = "ItItem" => DigitRun(nodes[n].Text, 0) = 0

Fresh(start) == start /= <<>> /\ \A i \in 1..Len(start) : start[i].num = 1

\* how many of the first i nodes written are Items
ItemsUpTo(o, i) == Cardinality({j \in 1..i : nodes[o[j].node].Type = "ItItem"})

Numbered(o) ==
    \A i \in 1..Len(o) :
        /\ o[i].node = WalkAll(nodes, todofile)[i]
        /\ o[i].Text = IF nodes[o[i].node].Type = "ItItem"
                       THEN Itoa(ItemsUpTo(o, i)) \o <<".", " ">> \o nodes[o[i].node].Text
                       ELSE nodes[o[i].node].Text

\* C7: in a pass whose auto-numbering stage starts at 1, over a Document
\* without numbered Items, the k-th Item in pre-order is written with "k. "
\* before its text, and Titles and Texts are written as they are.
C7_GlobalSequence ==
    Unnumbered =>
        /\ Fresh(pass.start) => Numbered(out)
        /\ \A p \in 1..Len(passes) : Fresh(passes[p].start) => Numbered(passes[p].out)

C7_Witness ==
    /\ Unnumbered
    /\ Len(passes) = 1
    /\ Fresh(passes[1].start)
    /\ Len(passes[1].out) = 3
    /\ nodes[2].Type = "ItTitle"
    /\ nodes[3].parent = 2
    /\ passes[1].out[3].Text = <<"2", ".", " ", "a">>

\* the text the stage should leave for a numbered Item: the counter, advanced
\* to the existing number when that is greater, then what followed the digits
Renumbered(text, counter) ==
    Itoa(IF Atoi(Slice(text, 0, DigitRun(text, 0))) > counter
         THEN Atoi(Slice(text, 0, DigitRun(text, 0))) ELSE counter)
    \o From(text, DigitRun(text, 0))

\* C8: an Item whose text starts with digits is written as the counter
\* (advanced to the existing number when greater) followed by the text after
\* the old digits, unchanged.
C8_RewriteKeepsRemainder ==
    \A i \in 1..Len(out) :
        (Len(out[i].nums) = 1 /\ nodes[out[i].node].Type = "ItItem"
         /\ DigitRun(nodes[out[i].node].Text, 0) > 0)
        => out[i].Text = Renumbered(nodes[out[i].node].Text, out[i].nums[1].num)

\* C9: the offset the stage records on the copy is the change of the text's
\* length.
C9_OffsetIsLengthChange ==
    \A i \in 1..Len(out) :
        (Len(out[i].nums) = 1 /\ nodes[out[i].node].Type = "ItItem")
        => out[i].offset = Len(out[i].Text) - Len(nodes[out[i].node].Text)

Written(o) == [i \in 1..Len(o) |-> <<o[i].node, o[i].Text, o[i].offset>>]

\* C10: two passes of the Printer with the same pipeline write the same text
\* and offset for every node.
C10_PassesAgree ==
    \A p, q \in 1..Len(passes) :
        Len(passes[p].start) = Len(passes[q].start)
        => Written(passes[p].out) = Written(passes[q].out)

\* the spans parseLine leaves on a node with this text: parseTag's, then
\* parseFormatText's
Extracted(text) == parseTag(text) \o parseFormatText(text)

WellFormed(tags, text) ==
    \A n \in 1..Len(tags) :
        /\ tags[n].Stop - tags[n].Start >= 2
        /\ 0 <= tags[n].Start /\ tags[n].Stop <= Len(text)
        /\ tags[n].Text = Slice(text, tags[n].Start, tags[n].Stop)

\* C11: colorWithTags on an Item's text with offset 0 and the spans the two
\* extraction passes give for that text (annotation spans, then format spans,
\* overlapping or not) does not fault, and its chunks, colours removed, spell
\* the text: nothing dropped, nothing twice, the tail after the last span kept.
C11_StyledTextIsText ==
    (color.called /\ color.offset = 0 /\ color.tags = Extracted(color.text)
     /\ WellFormed(color.tags, color.text))
    => (~color.fault /\ Concat(color.full) = color.text)

\* node n and the nodes above it
RECURSIVE SelfAndAncestors(_)
SelfAndAncestors(n) ==
    IF n = 0 THEN {} ELSE {n} \cup SelfAndAncestors(nodes[n].parent)

LineOrder == [i \in 1..Len(nodes) |-> i]

Visited(o) == [i \in 1..Len(o) |-> o[i].node]

\* C12: nodes are numbered by their source lines.  At every moment the
\* pre-order walk of the Document, children in insertion order, is the nodes
\* in line order; every node but the first is a child of the preceding node
\* or of one of its ancestors, or a root; and a render pass visits the nodes
\* in line order.
C12_PreorderIsLineOrder ==
    /\ WalkAll(nodes, todofile) = LineOrder
    /\ \A k \in 2..Len(nodes) :
          nodes[k].parent \in SelfAndAncestors(k - 1) \cup {0}
    /\ Visited(out) = SubSeq(LineOrder, 1, Len(out))
    /\ \A p \in 1..Len(passes) : Visited(passes[p].out) = LineOrder

\* a two-level dedent: the fourth line, at indent 0 after indents 0, 1, 2,
\* becomes the last child of the first node, and a pass has written all four
C12_Witness ==
    /\ Len(nodes) = 4
    /\ nodes[1].Ident = 0 /\ nodes[2].Ident = 1 /\ nodes[3].Ident = 2 /\ nodes[4].Ident = 0
    /\ nodes[1].Items = <<2, 4>>
    /\ Len(passes) = 1
    /\ Visited(passes[1].out) = <<1, 2, 3, 4>>

====
